---- MODULE Spec2Model ----
(***************************************************************************)
(* A model of the Slack translation bot (guipereira1806/slack-tradutor-bot)*)
(* The repository holds several iterations of the same program; each is a  *)
(* "variant" of the model, named after the place of its message handler:   *)
(*   p000   src/unnamed/part_000:115   DeepL, probe call + cached fan-out  *)
(*   idxA   src/index.js:131           DeepL, detectLanguage + cached      *)
(*                                     fan-out, isValidMessage filter      *)
(*   idxB   src/index.js:301           DeepL, first translation reused     *)
(*   p008   src/unnamed/part_008:56    DeepL, no cache, no per-branch catch*)
(*   p003b  src/unnamed/part_003:248   DeepL, isValidText filter, no catch *)
(*   p009   src/unnamed/part_009:132   Gemini, one call, dedup by ts       *)
(*   p006   src/unnamed/part_006:132   Gemini, one call, finishReason check*)
(*   p007   src/unnamed/part_007:128   Gemini, no upper-casing of codes    *)
(* A behaviour runs one variant: the variable "variant" never changes.     *)
(*                                                                         *)
(* Texts are sequences of one-character strings (UTF-16 code units).       *)
(* One action is one run of JavaScript from an event (message delivered,   *)
(* HTTP response, timer) to the next point where every continuation        *)
(* awaits: Node runs such a piece without interleaving.                    *)
(***************************************************************************)
EXTENDS Integers, Sequences, FiniteSets, TLC

VARIABLES
  variant,           \* which iteration of the program is running
  apiKey,            \* whether process.env holds the provider's API key
  started,           \* whether app.start() has run: events are accepted
  now,               \* Date.now(), in ms since the process started
  ticks,             \* how many times the clock advanced (bounded)
  translationCache,  \* the Map translationCache: cacheKey -> entry
  processedIds,      \* the Set processedIds (part_009)
  timers,            \* pending setTimeout callbacks of isDuplicate
  pc,                \* per invocation: where the handler awaits
  message,           \* per invocation: the inbound message
  arrivedAt,         \* per invocation: Date.now() when the event arrived
  received,          \* per invocation: the response to its first call
  sourceLang,        \* per invocation: the (normalized) detected language
  probeText,         \* per invocation: the probe call's translation
  branch,            \* per invocation: the fan-out branches, config order
  reqs,              \* per invocation: provider requests issued, in order
  posts              \* per invocation: say() calls issued, in order

vars == <<variant, apiKey, started, now, ticks, translationCache,
          processedIds, timers,
          pc, message, arrivedAt, received, sourceLang, probeText, branch,
          reqs, posts>>

(***************************************************************************)
(* Bounds of the model.                                                    *)
(***************************************************************************)
MaxEvents == 2      \* inbound message events per behaviour
MaxTicks == 1       \* clock advances per behaviour
MaxCacheEntries == 2  \* the capacity the specification gives the cache
                      \* (1000), scaled to the texts of the model

(***************************************************************************)
(* Program constants.                                                      *)
(***************************************************************************)
MIN_MESSAGE_LENGTH == 5
TTL_CACHE_MS == 15 * 60 * 1000
DEDUP_MS == 60000

DeeplVariants == {"p000", "idxA", "idxB", "p008", "p003b"}
GeminiVariants == {"p009", "p006", "p007"}
Variants == DeeplVariants \cup GeminiVariants

H == 1..MaxEvents

None == "none"

\* An absent object (undefined), where the present value is a record.
Nil == [nil |-> TRUE]

(***************************************************************************)
(* Text: String.prototype.trim and the mention/channel token pattern.      *)
(***************************************************************************)
IsSpace(c) == c = " "

RECURSIVE TrimLeft(_)
TrimLeft(s) ==
  IF s = <<>> THEN <<>>
  ELSE IF IsSpace(Head(s)) THEN TrimLeft(Tail(s)) ELSE s

RECURSIVE TrimRight(_)
TrimRight(s) ==
  IF s = <<>> THEN <<>>
  ELSE IF IsSpace(s[Len(s)]) THEN TrimRight(SubSeq(s, 1, Len(s) - 1)) ELSE s

trim(s) == TrimRight(TrimLeft(s))

\* The index of the ">" that closes a token <@...> or <#...> starting at i
\* (the pattern <@[^>]+>|<#[^>]+>), or 0 when no token starts at i.
TokenEnd(s, i) ==
  IF /\ i + 3 <= Len(s)
     /\ s[i] = "<"
     /\ s[i + 1] \in {"@", "#"}
     /\ s[i + 2] # ">"
     /\ \E j \in (i + 3)..Len(s) : s[j] = ">"
  THEN CHOOSE j \in (i + 3)..Len(s) :
         /\ s[j] = ">"
         /\ \A k \in (i + 3)..(j - 1) : s[k] # ">"
  ELSE 0

RECURSIVE StripFrom(_, _)
StripFrom(s, i) ==
  IF i > Len(s) THEN <<>>
  ELSE IF TokenEnd(s, i) > 0 THEN StripFrom(s, TokenEnd(s, i) + 1)
  ELSE <<s[i]>> \o StripFrom(s, i + 1)

\* text.replace(/<@[^>]+>|<#[^>]+>/g, '')
removeTokens(s) == StripFrom(s, 1)

(***************************************************************************)
(* Languages: LANGUAGE_MAP, translationConfig and the normalization of the *)
(* detected code.                                                          *)
(***************************************************************************)
LangCodes == {"EN", "ES", "PT", "PT-BR", "PT-PT", "FR"}

\* detectedLang.startsWith('PT'), on the codes of LangCodes
startsWithPT(code) == code \in {"PT", "PT-BR", "PT-PT"}

\* The keys of translationConfig, in the order of the object literal.
configKeys(v) ==
  IF v \in {"p008", "p003b"} THEN <<"PT", "EN", "ES">>
  ELSE <<"PT-BR", "EN", "ES">>

translationConfig(v, src) ==
  IF v \in {"p008", "p003b"}
  THEN CASE src = "PT" -> <<"EN", "ES">>
         [] src = "EN" -> <<"PT", "ES">>
         [] src = "ES" -> <<"PT", "EN">>
         [] OTHER -> <<>>
  ELSE CASE src = "PT-BR" -> <<"EN", "ES">>
         [] src = "EN" -> <<"PT-BR", "ES">>
         [] src = "ES" -> <<"PT-BR", "EN">>
         [] OTHER -> <<>>

\* The language code the handler works with after the probe call.
normalizeDetected(v, detected) ==
  IF v \in {"p000", "idxA", "idxB"}
  THEN (IF startsWithPT(detected) THEN "PT-BR" ELSE detected)
  ELSE detected

\* target_lang of the call that detects the source language
probeTarget(v) ==
  IF v = "idxB" THEN translationConfig(v, configKeys(v)[1])[1] ELSE "EN"

\* filter(lang => lang !== x) on a sequence of codes
Without(seq, x) == SelectSeq(seq, LAMBDA l : l # x)

\* The languages the handler fans out to, in order.
fanOutLangs(v, src) ==
  CASE v = "p000" -> Without(translationConfig(v, src), src)
    [] v = "idxB" -> Without(translationConfig(v, src), probeTarget(v))
    [] OTHER -> translationConfig(v, src)

hasCache(v) == v \in {"p000", "idxA", "idxB"}
branchCatch(v) == v \in {"p000", "idxA", "idxB"}

(***************************************************************************)
(* Inbound messages and the filter of each variant.                        *)
(***************************************************************************)
Text2 == <<"h", "i">>
Text4 == <<" ", "a", "b", "c", "d", " ">>
Text5 == <<"h", "e", "l", "l", "o">>
Text6 == <<"h", "e", "l", "l", "o", "!">>
TextMention == <<"<", "@", "U", ">", " ", "h", "i", "!">>
TextChannel5 == <<"<", "#", "C", ">", "h", "e", "l", "l", "o">>

Texts == {<<>>, Text2, Text4, Text5, Text6, TextMention, TextChannel5}

Msg(ts, text, th, bot, sub) ==
  [ts |-> ts, text |-> text, thread_ts |-> th, bot_id |-> bot, subtype |-> sub]

NoMessage == Msg(0, <<>>, FALSE, FALSE, None)

\* Messages of users at top level, plus a thread reply, a bot's message and
\* a system event, each with a text long enough to pass every length check.
MessagesAt(ts) ==
  {Msg(ts, t, FALSE, FALSE, None) : t \in Texts}
    \cup {Msg(ts, Text6, TRUE, FALSE, None),
          Msg(ts, Text6, FALSE, TRUE, "bot_message"),
          Msg(ts, Text6, FALSE, FALSE, "channel_join")}

\* const cleanText = ...
cleanTextOf(v, m) ==
  IF v \in {"idxA", "p008", "p003b"} THEN trim(m.text)
  ELSE trim(removeTokens(m.text))

isValidMessage(m) ==
  /\ ~m.thread_ts
  /\ m.text # <<>>
  /\ Len(trim(m.text)) > MIN_MESSAGE_LENGTH

isValidText(text) == Len(trim(text)) > 0

\* Guard clauses that do not look at thread_ts.
passesGuards_noThread(v, m) ==
  CASE v \in {"p000", "idxB"} -> m.text # <<>>
    [] v \in {"idxA", "p008"} ->
         m.text # <<>> /\ Len(trim(m.text)) > MIN_MESSAGE_LENGTH
    [] v = "p003b" -> isValidText(m.text)
    [] v = "p007" -> ~(m.subtype = "bot_message" \/ m.bot_id) /\ m.text # <<>>
    [] OTHER -> m.subtype = None /\ ~m.bot_id /\ m.text # <<>>

\* The guard clauses before the dedup gate and the length check.
passesGuards(v, m) ==
  CASE v \in {"p000", "idxB"} -> ~m.thread_ts /\ m.text # <<>>
    [] v \in {"idxA", "p008"} -> isValidMessage(m)
    [] v = "p003b" -> ~m.thread_ts /\ isValidText(m.text)
    [] v = "p007" -> /\ ~m.thread_ts
                     /\ ~(m.subtype = "bot_message" \/ m.bot_id)
                     /\ m.text # <<>>
    [] OTHER -> /\ ~m.thread_ts
                /\ m.subtype = None
                /\ ~m.bot_id
                /\ m.text # <<>>

\* if (cleanText.length < MIN_MESSAGE_LENGTH) return;
passesLength(v, m) ==
  IF v \in {"idxA", "p008", "p003b"} THEN TRUE
  ELSE ~(Len(cleanTextOf(v, m)) < MIN_MESSAGE_LENGTH)

(***************************************************************************)
(* The provider (DeepL): responses and the classification of failures.     *)
(***************************************************************************)
DetectedLangs == {"EN", "ES", "PT", "PT-BR", "FR"}

\* A rejected call: whether the provider answered (error.response), the
\* HTTP status of its answer, and the length of error.message.
\* "Request failed with status code 429" has 35 characters.
HttpError(status) == [response |-> TRUE, status |-> status, len |-> 35]
\* "Network Error"
NetworkError == [response |-> FALSE, status |-> 0, len |-> 13]

\* The statuses handleDeeplError names, and one it does not name.
HttpStatuses == {400, 401, 403, 429, 456, 503, 500}

\* The failures a provider call ends with in the handler's runs.
ProviderErrors == {HttpError(s) : s \in HttpStatuses} \cup {NetworkError}

\* What the provider returns for text and target language.
Tr(text, lang) == [of |-> text, to |-> lang]

ErrMsg(class, status) == [class |-> class, status |-> status]

handleDeeplError(v, e) ==
  IF ~e.response THEN ErrMsg("NetworkOrUnknown", 0)
  ELSE CASE e.status = 400 /\ v \in {"p000", "idxB"} ->
              ErrMsg("InvalidRequest", e.status)
         [] e.status = 401 /\ v \in {"idxA", "idxB"} ->
              ErrMsg("AuthenticationFailed", e.status)
         [] e.status = 403 /\ v \in {"p000", "idxB"} ->
              ErrMsg("AuthenticationFailed", e.status)
         [] e.status = 429 -> ErrMsg("RateLimited", e.status)
         [] e.status = 456 -> ErrMsg("QuotaExceeded", e.status)
         [] e.status = 503 -> ErrMsg("ServiceUnavailable", e.status)
         [] OTHER -> ErrMsg("ApiError", e.status)

\* The body of a failed language's section (the per-branch catch).
branchErrorBody(v, e) ==
  IF v = "idxA" THEN ErrMsg("TranslateError", 0) ELSE handleDeeplError(v, e)

(***************************************************************************)
(* TranslationCache: the Map translationCache and translateText's use of   *)
(* it.                                                                     *)
(***************************************************************************)
LangChars(lang) ==
  CASE lang = "EN" -> <<"E", "N">>
    [] lang = "ES" -> <<"E", "S">>
    [] lang = "PT" -> <<"P", "T">>
    [] lang = "PT-BR" -> <<"P", "T", "-", "B", "R">>
    [] lang = "PT-PT" -> <<"P", "T", "-", "P", "T">>
    [] lang = "FR" -> <<"F", "R">>

\* A key that fingerprints the text by its first five characters only.
cacheKey_prefix(text, lang) ==
  SubSeq(text, 1, IF Len(text) < 5 THEN Len(text) ELSE 5)
    \o <<"-">> \o LangChars(lang)

\* const cacheKey = `${text}-${targetLang}`
cacheKey(text, lang) == text \o <<"-">> \o LangChars(lang)

EmptyMap == [k \in {} |-> None]

\* translationCache.set(key, { translation, timestamp: Date.now() })
cacheSet(cache, key, translation, t) ==
  [k \in DOMAIN cache \cup {key} |->
     IF k = key THEN [translation |-> translation, timestamp |-> t]
     ELSE cache[k]]

\* A cache whose entry is still served at the instant its TTL has elapsed.
cacheHit_inclusive(cache, key, t) ==
  /\ key \in DOMAIN cache
  /\ t - cache[key].timestamp <= TTL_CACHE_MS

\* cachedResult && Date.now() - cachedResult.timestamp < TTL_CACHE_MS
cacheHit(cache, key, t) ==
  /\ key \in DOMAIN cache
  /\ t - cache[key].timestamp < TTL_CACHE_MS

(***************************************************************************)
(* Outbound posts: the argument of say().                                  *)
(***************************************************************************)
\* A post that is not threaded under the inbound message (no thread root).
Post_topLevel(m, kind, sections, blocks, text, detail) ==
  [thread_ts |-> 0, kind |-> kind, sections |-> sections,
   blocks |-> blocks, text |-> text, detail |-> detail,
   status |-> "inflight"]

\* say({ thread_ts: message.ts, ... })
Post(m, kind, sections, blocks, text, detail) ==
  [thread_ts |-> m.ts, kind |-> kind, sections |-> sections,
   blocks |-> blocks, text |-> text, detail |-> detail,
   status |-> "inflight"]

\* One entry per formatted translation string, in the order of the array
\* given to formatSlackBlocks (or pushed to blocks).
sectionsOf(v, probe, br) ==
  LET fanned == [i \in 1..Len(br) |->
                   [lang |-> br[i].lang, ok |-> br[i].st = "ok",
                    body |-> br[i].body]]
  IN IF v = "idxB"
     THEN <<[lang |-> probeTarget(v), ok |-> TRUE, body |-> probe]>> \o fanned
     ELSE fanned

\* say({ thread_ts, blocks, text }) of the translation reply
replyPost(v, m, probe, br) ==
  Post(m, "translation", sectionsOf(v, probe, br), TRUE,
       v \notin {"idxA", "p008"}, Nil)

\* say() in the catch of the probe call
warningPost(v, m, e) ==
  Post(m, "warning", <<>>, FALSE, TRUE, handleDeeplError(v, e))

\* say() of the unsupported-language branch
unsupportedPost(m, src) ==
  Post(m, "unsupported", <<>>, FALSE, TRUE, [lang |-> src])

Min(a, b) == IF a < b THEN a ELSE b

\* The number of characters of error.message in the catch-all's notice:
\* error.message.substring(0, 50), substring(0, 100), or error.message.
noticeChars(v, e) ==
  CASE v \in {"idxA", "p008"} -> Min(e.len, 50)
    [] v = "p003b" -> Min(e.len, 100)
    [] OTHER -> e.len

\* say() in the catch around the whole handler
errorPost(v, m, e) ==
  Post(m, "error", <<>>, FALSE, TRUE,
       [cause |-> e, shown |-> noticeChars(v, e)])

(***************************************************************************)
(* The state after construction.                                           *)
(***************************************************************************)
Init ==
  /\ variant \in Variants
  /\ apiKey \in BOOLEAN
  /\ started = FALSE
  /\ now = 0
  /\ ticks = 0
  /\ translationCache = EmptyMap
  /\ processedIds = {}
  /\ timers = {}
  /\ pc = [h \in H |-> "idle"]
  /\ message = [h \in H |-> NoMessage]
  /\ arrivedAt = [h \in H |-> 0]
  /\ received = [h \in H |-> Nil]
  /\ sourceLang = [h \in H |-> None]
  /\ probeText = [h \in H |-> Nil]
  /\ branch = [h \in H |-> <<>>]
  /\ reqs = [h \in H |-> <<>>]
  /\ posts = [h \in H |-> <<>>]

Request(kind, text, target) == [kind |-> kind, text |-> text, target |-> target]

\* Whether the handler has an inner try/catch around the probe call.
probeCatch(v) == v \in {"p000", "idxA", "idxB"}

\* if (finalTargetLangs.length === 0) / if (targetLangs.length === 0)
nothingToTranslate(v, src) ==
  IF v = "p000" THEN fanOutLangs(v, src) = <<>>
  ELSE translationConfig(v, src) = <<>>

\* The say() calls of a failed probe call: the inner catch posts a warning
\* and returns; without an inner catch the catch-all posts its notice.
probeFailurePosts_noReturn(v, m, e) ==
  <<warningPost(v, m, e), errorPost(v, m, e)>>

probeFailurePosts(v, m, e) ==
  IF probeCatch(v) THEN <<warningPost(v, m, e)>> ELSE <<errorPost(v, m, e)>>

\* Whether the handler answers an unsupported language with a notice.
unsupportedNotice(v) == v \in {"idxA", "p008", "p003b"}

\* A lookup that restarts the TTL of the entry it serves.
cacheGet_touch(cache, key, t) ==
  IF cacheHit(cache, key, t) THEN [cache EXCEPT ![key].timestamp = t]
  ELSE cache

\* translationCache.get(cacheKey) and the test of the entry's age: the Map
\* after the lookup. Neither a hit nor an expired entry changes it.
cacheGet(cache, key, t) == cache

\* The Map after the lookups of a fan-out over langs.
RECURSIVE fanOutLookups(_, _, _, _)
fanOutLookups(cache, text, langs, t) ==
  IF langs = <<>> THEN cache
  ELSE fanOutLookups(cacheGet(cache, cacheKey(text, Head(langs)), t),
                     text, Tail(langs), t)

\* translateText up to its first await: a fresh cache entry is returned,
\* otherwise the request is issued.
translateTextStart(v, cache, text, lang, t) ==
  IF hasCache(v) /\ cacheHit(cache, cacheKey(text, lang), t)
  THEN [lang |-> lang, st |-> "ok",
        body |-> cache[cacheKey(text, lang)].translation, hit |-> TRUE]
  ELSE [lang |-> lang, st |-> "inflight", body |-> Nil, hit |-> FALSE]

\* targetLangs.map(async (lang) => ...): every branch up to its first await
fanOutStart(v, cache, text, langs, t) ==
  [i \in 1..Len(langs) |-> translateTextStart(v, cache, text, langs[i], t)]

\* A fan-out that detects the language again before translating.
fanOutRequests_reprobe(text, br) ==
  LET waiting == SelectSeq(br, LAMBDA b : b.st = "inflight")
  IN <<Request("probe", text, "EN")>>
       \o [i \in 1..Len(waiting) |->
             Request("translate", text, waiting[i].lang)]

\* A fan-out that issues every request twice.
fanOutRequests_twice(text, br) ==
  LET waiting == SelectSeq(br, LAMBDA b : b.st = "inflight")
      once == [i \in 1..Len(waiting) |->
                 Request("translate", text, waiting[i].lang)]
  IN once \o once

\* The requests fanOutStart issues, in order.
fanOutRequests(text, br) ==
  LET waiting == SelectSeq(br, LAMBDA b : b.st = "inflight")
  IN [i \in 1..Len(waiting) |-> Request("translate", text, waiting[i].lang)]

\* The fan-in is over as soon as one branch has settled.
allSettled_any(br) == \E i \in 1..Len(br) : br[i].st # "inflight"

\* Promise.all resolves: every branch returned its formatted string.
allSettled(br) == \A i \in 1..Len(br) : br[i].st \in {"ok", "fail"}

(***************************************************************************)
(* A message event is delivered: the handler runs to its first await.      *)
(***************************************************************************)
\* A dedup gate that never recognises an id.
isDuplicate_never(ids, id) == FALSE

\* isDuplicate(id): processedIds.has(id)
isDuplicate(ids, id) == id \in ids

\* The startup function: await app.start(...). No handler, and no code
\* before it, looks at the provider's API key.
Start ==
  /\ ~started
  /\ started' = TRUE
  /\ UNCHANGED <<apiKey, variant, now, ticks, translationCache, processedIds,
                 timers, pc, message, arrivedAt, received, sourceLang,
                 probeText, branch, reqs, posts>>

\* An insertion put off to a later turn of the event loop: the set is
\* unchanged when the handler reaches its first await.
processedIdsAdd_deferred(ids, id) == ids

\* processedIds.add(id), in the same synchronous run as the has(id) test
processedIdsAdd(ids, id) == ids \cup {id}

\* A timer set for twice the delay.
evictionTimer_late(id, t) == [id |-> id, due |-> t + 2 * DEDUP_MS]

\* setTimeout(() => processedIds.delete(id), 60000)
evictionTimer(id, t) == [id |-> id, due |-> t + DEDUP_MS]

Deliver(h, m) ==
  /\ started
  /\ pc[h] = "idle"
  /\ \A g \in 1..(h - 1) : pc[g] # "idle"
  /\ message' = [message EXCEPT ![h] = m]
  /\ arrivedAt' = [arrivedAt EXCEPT ![h] = now]
  /\ LET v == variant
         dedup == v = "p009" /\ passesGuards(v, m)
         fresh == dedup /\ ~isDuplicate(processedIds, m.ts)
         pass == /\ passesGuards(v, m)
                 /\ dedup => fresh
                 /\ passesLength(v, m)
         kind == IF v \in DeeplVariants THEN "probe" ELSE "generate"
         target == IF v \in DeeplVariants THEN probeTarget(v) ELSE None
     IN /\ processedIds' = IF fresh THEN processedIdsAdd(processedIds, m.ts)
                           ELSE processedIds
        /\ timers' = IF fresh
                     THEN timers \cup {evictionTimer(m.ts, now)}
                     ELSE timers
        /\ IF pass
           THEN /\ reqs' = [reqs EXCEPT
                      ![h] = <<Request(kind, cleanTextOf(v, m), target)>>]
                /\ pc' = [pc EXCEPT ![h] = kind]
           ELSE /\ pc' = [pc EXCEPT ![h] = "done"]
                /\ UNCHANGED reqs
  /\ UNCHANGED <<apiKey, started,
                 variant, now, ticks, translationCache, received, sourceLang,
                 probeText, branch, posts>>

(***************************************************************************)
(* DeepL variants: the probe call returns.                                 *)
(***************************************************************************)
ProbeResponses ==
  {[ok |-> TRUE, detected |-> d, error |-> Nil] : d \in DetectedLangs}
    \cup {[ok |-> FALSE, detected |-> None, error |-> e] : e \in ProviderErrors}

\* Without an auth_key the provider answers every request with HTTP 403.
keyAccepted(r) == apiKey \/ (~r.ok /\ r.error = HttpError(403))

ProbeResponse(h, r) ==
  /\ variant \in DeeplVariants
  /\ pc[h] = "probe"
  /\ keyAccepted(r)
  /\ LET v == variant
         m == message[h]
         text == cleanTextOf(v, m)
         src == normalizeDetected(v, r.detected)
         probe == Tr(text, probeTarget(v))
         br == fanOutStart(v, translationCache, text, fanOutLangs(v, src), now)
     IN IF ~r.ok
        THEN /\ posts' = [posts EXCEPT
                  ![h] = @ \o probeFailurePosts(v, m, r.error)]
             /\ pc' = [pc EXCEPT
                  ![h] = IF probeCatch(v) THEN "sayWarn" ELSE "sayErr"]
             /\ UNCHANGED <<sourceLang, probeText, branch, reqs>>
        ELSE /\ sourceLang' = [sourceLang EXCEPT ![h] = src]
             /\ probeText' = [probeText EXCEPT ![h] = probe]
             /\ IF nothingToTranslate(v, src)
                THEN /\ IF unsupportedNotice(v)
                        THEN /\ posts' = [posts EXCEPT
                                  ![h] = Append(@, unsupportedPost(m, src))]
                             /\ pc' = [pc EXCEPT ![h] = "sayNotice"]
                        ELSE /\ pc' = [pc EXCEPT ![h] = "done"]
                             /\ UNCHANGED posts
                     /\ UNCHANGED <<branch, reqs>>
                ELSE /\ branch' = [branch EXCEPT ![h] = br]
                     /\ reqs' = [reqs EXCEPT
                          ![h] = @ \o fanOutRequests(text, br)]
                     /\ IF allSettled(br)
                        THEN /\ posts' = [posts EXCEPT
                                  ![h] = Append(@, replyPost(v, m, probe, br))]
                             /\ pc' = [pc EXCEPT ![h] = "say"]
                        ELSE /\ pc' = [pc EXCEPT ![h] = "fanout"]
                             /\ UNCHANGED posts
  /\ translationCache' =
       IF r.ok /\ hasCache(variant)
       THEN fanOutLookups(translationCache, cleanTextOf(variant, message[h]),
                          fanOutLangs(variant,
                                      normalizeDetected(variant, r.detected)),
                          now)
       ELSE translationCache
  /\ UNCHANGED <<apiKey, started, arrivedAt, variant, now, ticks,
                 processedIds, timers, message>>
  /\ received' = [received EXCEPT ![h] = r]

(***************************************************************************)
(* DeepL variants: the request of one fan-out branch returns.              *)
(***************************************************************************)
BranchResponses ==
  {[ok |-> TRUE, error |-> Nil]}
    \cup {[ok |-> FALSE, error |-> e] : e \in ProviderErrors}

\* A branch whose request never returns: it stays in flight.
branchSettled_pending(v, b, text, r) == b

\* The branch after its request returned: translateText's return value, the
\* per-branch catch, or a rejection that reaches Promise.all.
branchSettled(v, b, text, r) ==
  IF r.ok
  THEN [b EXCEPT !.st = "ok", !.body = Tr(text, b.lang)]
  ELSE IF branchCatch(v)
       THEN [b EXCEPT !.st = "fail", !.body = branchErrorBody(v, r.error)]
       ELSE [b EXCEPT !.st = "rejected", !.body = r.error]

\* A translateText that stores an entry whatever the request's outcome.
translateTextEnd_always(v, cache, text, lang, r, t) ==
  IF hasCache(v)
  THEN cacheSet(cache, cacheKey(text, lang),
                IF r.ok THEN Tr(text, lang) ELSE Nil, t)
  ELSE cache

\* translateText after its await: a rejected request throws before the
\* set; a response is stored under the key with the time of its arrival.
translateTextEnd(v, cache, text, lang, r, t) ==
  IF r.ok /\ hasCache(v)
  THEN cacheSet(cache, cacheKey(text, lang), Tr(text, lang), t)
  ELSE cache

BranchResponse(h, i, r) ==
  /\ keyAccepted(r)
  /\ variant \in DeeplVariants
  /\ i \in 1..Len(branch[h])
  /\ branch[h][i].st = "inflight"
  /\ LET v == variant
         m == message[h]
         text == cleanTextOf(v, m)
         b == branchSettled(v, branch[h][i], text, r)
         br == [branch[h] EXCEPT ![i] = b]
     IN /\ branch' = [branch EXCEPT ![h] = br]
        /\ translationCache' =
             translateTextEnd(v, translationCache, text, b.lang, r, now)
        /\ IF pc[h] = "fanout" /\ b.st = "rejected"
           THEN /\ posts' = [posts EXCEPT
                     ![h] = Append(@, errorPost(v, m, r.error))]
                /\ pc' = [pc EXCEPT ![h] = "sayErr"]
           ELSE IF pc[h] = "fanout" /\ allSettled(br)
           THEN /\ posts' = [posts EXCEPT
                     ![h] = Append(@, replyPost(v, m, probeText[h], br))]
                /\ pc' = [pc EXCEPT ![h] = "say"]
           ELSE UNCHANGED <<pc, posts>>
  /\ UNCHANGED <<apiKey, started,
                 arrivedAt, variant, now, ticks, processedIds, timers, message,
                 received, sourceLang, probeText, reqs>>

(***************************************************************************)
(* Gemini variants: the single generateContent call returns.               *)
(***************************************************************************)
\* What the model's JSON answer holds: the detected language (None: the
\* field is missing), whether it has a translations array, and the
\* languages of the translations.
Shape(src, has, langs) ==
  [sourceLang |-> src, hasTranslations |-> has, langs |-> langs]

GeminiShape1 == Shape("EN", TRUE, <<"PT-BR", "ES">>)

GeminiShapes ==
  {GeminiShape1,
   Shape("PT", TRUE, <<"EN", "ES">>),
   Shape("pt", TRUE, <<"en", "es">>),
   Shape("ES", TRUE, <<"ES", "EN">>),
   Shape("EN", TRUE, <<>>),
   Shape("EN", FALSE, <<>>),
   Shape(None, TRUE, <<"EN">>)}

GeminiResponses ==
  {[http |-> FALSE, finishReason |-> None, raw |-> "empty",
    shape |-> GeminiShape1]}
    \cup {[http |-> TRUE, finishReason |-> f, raw |-> "json", shape |-> s] :
            f \in {"STOP", "SAFETY"}, s \in GeminiShapes}
    \cup {[http |-> TRUE, finishReason |-> f, raw |-> w, shape |-> GeminiShape1] :
            f \in {"STOP", "SAFETY"}, w \in {"fenced", "garbage", "empty"}}

\* GeminiService.translate: the parsed answer, or Nil for null.
translate(v, r) ==
  IF ~r.http THEN Nil
  ELSE IF v \in {"p006", "p007"}
            /\ r.finishReason # None /\ r.finishReason # "STOP"
  THEN Nil
  ELSE IF r.raw = "empty" THEN Nil
  ELSE IF r.raw = "json" \/ (r.raw = "fenced" /\ v \in {"p006", "p007"})
  THEN r.shape
  ELSE Nil

\* if (!result || !result.translations [|| result.translations.length === 0]) return;
noResult(v, result) ==
  \/ result = Nil
  \/ ~result.hasTranslations
  \/ v \in {"p006", "p007"} /\ result.langs = <<>>

\* String.prototype.toUpperCase, on language codes
toUpperCase(code) ==
  CASE code = "pt" -> "PT"
    [] code = "pt-br" -> "PT-BR"
    [] code = "en" -> "EN"
    [] code = "es" -> "ES"
    [] OTHER -> code

\* (code === 'PT' ? 'PT-BR' : code).toUpperCase(); part_007 has no
\* toUpperCase() and renders an undefined code as it is.
geminiCode(v, code) ==
  IF v = "p007" THEN (IF code = "PT" THEN "PT-BR" ELSE code)
  ELSE toUpperCase(IF code = "PT" THEN "PT-BR" ELSE code)

geminiSections(v, text, langs) ==
  [i \in 1..Len(langs) |->
     [lang |-> geminiCode(v, langs[i]), ok |-> TRUE,
      body |-> Tr(text, langs[i])]]

GenerateResponse(h, r) ==
  /\ variant \in GeminiVariants
  /\ pc[h] = "generate"
  /\ apiKey \/ ~r.http
  /\ LET v == variant
         m == message[h]
         text == cleanTextOf(v, m)
         result == translate(v, r)
     IN IF noResult(v, result) \/ (v # "p007" /\ result.sourceLang = None)
        THEN \* return, or the TypeError of undefined.toUpperCase() is caught
             /\ pc' = [pc EXCEPT ![h] = "done"]
             /\ UNCHANGED <<sourceLang, posts>>
        ELSE /\ sourceLang' = [sourceLang EXCEPT
                  ![h] = geminiCode(v, result.sourceLang)]
             /\ posts' = [posts EXCEPT ![h] = Append(@,
                  Post(m, "translation",
                       geminiSections(v, text, result.langs),
                       TRUE, TRUE, Nil))]
             /\ pc' = [pc EXCEPT ![h] = "say"]
  /\ UNCHANGED <<apiKey, started,
                 arrivedAt, variant, now, ticks, translationCache, processedIds,
                 timers, message, probeText, branch, reqs>>
  /\ received' = [received EXCEPT ![h] = r]

(***************************************************************************)
(* A say() call returns or throws.                                         *)
(***************************************************************************)
\* What say() throws: the message of the exception is the platform's, of
\* any length ("An API error occurred: invalid_blocks" has 37 characters).
SayError == [response |-> FALSE, status |-> 0, len |-> 37]
SayErrorLong == [response |-> FALSE, status |-> 0, len |-> 120]
SayErrors == {SayError, SayErrorLong}

SayResponse(h, ok) ==
  /\ pc[h] \in {"say", "sayWarn", "sayNotice", "sayErr"}
  /\ LET v == variant
         m == message[h]
         n == Len(posts[h])
         settled == [posts[h] EXCEPT ![n].status = IF ok THEN "ok" ELSE "fail"]
     IN IF ok \/ v \in GeminiVariants
        THEN /\ posts' = [posts EXCEPT ![h] = settled]
             /\ pc' = [pc EXCEPT ![h] = "done"]
        ELSE IF pc[h] = "sayErr"
        THEN \* say() throws inside the outer catch: the handler rejects
             /\ posts' = [posts EXCEPT ![h] = settled]
             /\ pc' = [pc EXCEPT ![h] = "escaped"]
        ELSE /\ \E e \in SayErrors :
                  posts' = [posts EXCEPT
                    ![h] = Append(settled, errorPost(v, m, e))]
             /\ pc' = [pc EXCEPT ![h] = "sayErr"]
  /\ UNCHANGED <<apiKey, started,
                 arrivedAt, variant, now, ticks, translationCache, processedIds,
                 timers, message, received, sourceLang, probeText, branch,
                 reqs>>

(***************************************************************************)
(* Time: the clock advances; a dedup timer fires.                          *)
(***************************************************************************)
\* The clock advances by the dedup window or by the cache TTL.
ClockSteps == {DEDUP_MS, TTL_CACHE_MS}

Tick(d) ==
  /\ ticks < MaxTicks
  /\ \A t \in timers : now + d <= t.due
  /\ now' = now + d
  /\ ticks' = ticks + 1
  /\ UNCHANGED <<apiKey, started,
                 arrivedAt, variant, translationCache, processedIds, timers, pc,
                 message, received, sourceLang, probeText, branch, reqs, posts>>

\* setTimeout(() => processedIds.delete(id), 60000)
TimerFire(t) ==
  /\ t \in timers
  /\ now >= t.due
  /\ processedIds' = processedIds \ {t.id}
  /\ timers' = timers \ {t}
  /\ UNCHANGED <<apiKey, started,
                 arrivedAt, variant, now, ticks, translationCache, pc, message,
                 received, sourceLang, probeText, branch, reqs, posts>>

(***************************************************************************)
(* Spec: one message event, every kind of message and every outcome of     *)
(* each call, at time 0.                                                   *)
(***************************************************************************)
Next ==
  \/ Start
  \/ \E m \in MessagesAt(1) : Deliver(1, m)
  \/ \E r \in ProbeResponses : ProbeResponse(1, r)
  \/ \E i \in 1..2 : \E r \in BranchResponses : BranchResponse(1, i, r)
  \/ \E r \in GeminiResponses : GenerateResponse(1, r)
  \/ \E ok \in BOOLEAN : SayResponse(1, ok)

Spec == Init /\ [][Next]_vars

(***************************************************************************)
(* SpecLive: every request has a timeout (axios' timeout option of 3000,   *)
(* 5000, 10000 or 15000 ms) and every say() returns or throws, so a        *)
(* response that the handler awaits is eventually delivered to it.         *)
(***************************************************************************)
Responds(h) ==
  \/ \E r \in ProbeResponses : ProbeResponse(h, r)
  \/ \E i \in 1..2 : \E r \in BranchResponses : BranchResponse(h, i, r)
  \/ \E r \in GeminiResponses : GenerateResponse(h, r)
  \/ \E ok \in BOOLEAN : SayResponse(h, ok)

SpecLive == Spec /\ WF_vars(Responds(1))

(***************************************************************************)
(* SpecCache: the variants with a translation cache handle MaxEvents       *)
(* events of one user text concurrently while the clock advances.          *)
(***************************************************************************)
CacheMessages(h) == {Msg(h, Text6, FALSE, FALSE, None)}

ConcProbeResponses ==
  {r \in ProbeResponses :
     IF r.ok THEN r.detected \in {"EN", "PT"} ELSE r.error = NetworkError}

ConcBranchResponses ==
  {r \in BranchResponses : ~r.ok => r.error = NetworkError}

InitCache == Init /\ hasCache(variant) /\ apiKey

NextCache ==
  \/ Start
  \/ \E h \in H : \E m \in CacheMessages(h) : Deliver(h, m)
  \/ \E h \in H : \E r \in ConcProbeResponses : ProbeResponse(h, r)
  \/ \E h \in H : \E i \in 1..2 : \E r \in ConcBranchResponses :
       BranchResponse(h, i, r)
  \/ \E h \in H : SayResponse(h, TRUE)
  \/ \E d \in ClockSteps : Tick(d)

SpecCache == InitCache /\ [][NextCache]_vars

(***************************************************************************)
(* SpecEcho: the platform delivers the posts of the bot back to it as      *)
(* message events: after the event of Spec, every further event is the     *)
(* echo of a post that an earlier invocation made.                         *)
(***************************************************************************)
\* The message events a delivered post p may come back as: a message of the
\* bot, in the thread p names (if it names one), with p's text; a post of
\* blocks only comes back with whatever text the platform derives.
echoesOf(p, ts) ==
  {Msg(ts, t, p.thread_ts # 0, TRUE, sub) :
     t \in (IF p.text THEN {Text6} ELSE {<<>>, Text6}),
     sub \in {None, "bot_message"}}

Echo(h) ==
  \E g \in 1..(h - 1) : \E k \in 1..Len(posts[g]) :
    /\ posts[g][k].status = "ok"
    /\ \E m \in echoesOf(posts[g][k], h) : Deliver(h, m)

NextEcho ==
  \/ Start
  \/ \E m \in MessagesAt(1) : Deliver(1, m)
  \/ \E h \in H \ {1} : Echo(h)
  \/ \E h \in H : \E r \in ProbeResponses : ProbeResponse(h, r)
  \/ \E h \in H : \E i \in 1..2 : \E r \in BranchResponses :
       BranchResponse(h, i, r)
  \/ \E h \in H : \E r \in GeminiResponses : GenerateResponse(h, r)
  \/ \E h \in H : \E ok \in BOOLEAN : SayResponse(h, ok)

SpecEcho == Init /\ [][NextEcho]_vars

(***************************************************************************)
(* SpecRace: the handlers of SpecCache interleave while the clock stands   *)
(* still.                                                                  *)
(***************************************************************************)
NextRace ==
  \/ Start
  \/ \E h \in H : \E m \in CacheMessages(h) : Deliver(h, m)
  \/ \E h \in H : \E r \in ConcProbeResponses : ProbeResponse(h, r)
  \/ \E h \in H : \E i \in 1..2 : \E r \in ConcBranchResponses :
       BranchResponse(h, i, r)
  \/ \E h \in H : SayResponse(h, TRUE)

SpecRace == InitCache /\ [][NextRace]_vars

(***************************************************************************)
(* SpecTtl: the events of SpecCache arrive one after the other, each when  *)
(* no handler is running, while the clock advances.                        *)
(***************************************************************************)
NoHandlerRunning == \A h \in H : pc[h] \in {"idle", "done", "escaped"}

NextTtl ==
  \/ Start
  \/ /\ NoHandlerRunning
     /\ \E h \in H : \E m \in CacheMessages(h) : Deliver(h, m)
  \/ \E h \in H : \E r \in ConcProbeResponses : ProbeResponse(h, r)
  \/ \E h \in H : \E i \in 1..2 : \E r \in ConcBranchResponses :
       BranchResponse(h, i, r)
  \/ \E h \in H : SayResponse(h, TRUE)
  \/ \E d \in ClockSteps : Tick(d)

SpecTtl == InitCache /\ [][NextTtl]_vars

(***************************************************************************)
(* SpecKey: the variants with a translation cache handle MaxEvents events  *)
(* whose texts differ, some ending like the key's own suffix; every call   *)
(* succeeds and the clock stands still.                                    *)
(***************************************************************************)
TextDashEN == Text5 \o <<"-", "E", "N">>
TextDashPT == Text5 \o <<"-", "P", "T">>
TextDash == Text5 \o <<"-">>

KeyTexts == {Text5, TextDash, TextDashEN, TextDashPT}

KeyMessages(h) == {Msg(h, t, FALSE, FALSE, None) : t \in KeyTexts}

KeyProbeResponses ==
  {r \in ProbeResponses : r.ok /\ r.detected \in {"EN", "PT"}}

KeyBranchResponses == {r \in BranchResponses : r.ok}

InitKey == Init /\ hasCache(variant) /\ apiKey

NextKey ==
  \/ Start
  \/ \E h \in H : \E m \in KeyMessages(h) : Deliver(h, m)
  \/ \E h \in H : \E r \in KeyProbeResponses : ProbeResponse(h, r)
  \/ \E h \in H : \E i \in 1..2 : \E r \in KeyBranchResponses :
       BranchResponse(h, i, r)
  \/ \E h \in H : SayResponse(h, TRUE)

SpecKey == InitKey /\ [][NextKey]_vars

(***************************************************************************)
(* SpecDedup: part_009 handles MaxEvents events concurrently while the     *)
(* clock advances; an event may repeat the ts of an earlier one.           *)
(***************************************************************************)
ConcMessages(h) == {Msg(ts, Text6, FALSE, FALSE, None) : ts \in 1..h}

ConcGeminiResponses ==
  {r \in GeminiResponses :
     r.finishReason # "SAFETY" /\ r.raw \in {"json", "empty"}
       /\ r.shape = GeminiShape1}

InitDedup == Init /\ variant = "p009" /\ apiKey

NextDedup ==
  \/ Start
  \/ \E h \in H : \E m \in ConcMessages(h) : Deliver(h, m)
  \/ \E h \in H : \E r \in ConcGeminiResponses : GenerateResponse(h, r)
  \/ \E h \in H : \E ok \in BOOLEAN : SayResponse(h, ok)
  \/ \E d \in ClockSteps : Tick(d)
  \/ \E t \in timers : TimerFire(t)

SpecDedup == InitDedup /\ [][NextDedup]_vars

(***************************************************************************)
(* SpecRetry: the platform sends a user's message, then sends the event    *)
(* again in requests that carry the x-slack-retry-num header, while the    *)
(* handlers of the earlier requests may still be running.                  *)
(***************************************************************************)
\* receiver.app.use((req, res, next) => { if (req.headers[
\* 'x-slack-retry-num']) { res.status(200).send('ok'); return; } next(); })
hasRetryFilter(v) == v = "p009"

\* Request h carries the header and the event of an earlier request: the
\* middleware answers it, or it is dispatched to the message handler.
\* The middleware is added to the Express app after the receiver was
\* constructed; whether it runs before the receiver's own route for the
\* events is decided in ExpressReceiver, so a handler with the middleware
\* may still be invoked.
Redeliver(h) ==
  \E g \in 1..(h - 1) :
    /\ pc[g] # "idle"
    /\ \/ /\ hasRetryFilter(variant)
          /\ started
          /\ pc[h] = "idle"
          /\ pc' = [pc EXCEPT ![h] = "acked"]
          /\ message' = [message EXCEPT ![h] = message[g]]
          /\ arrivedAt' = [arrivedAt EXCEPT ![h] = now]
          /\ UNCHANGED <<apiKey, started, variant, now, ticks,
                         translationCache, processedIds, timers, received,
                         sourceLang, probeText, branch, reqs, posts>>
       \/ Deliver(h, message[g])

NextRetry ==
  \/ Start
  \/ \E m \in CacheMessages(1) : Deliver(1, m)
  \/ \E h \in H \ {1} : Redeliver(h)
  \/ \E h \in H : \E r \in ConcProbeResponses : ProbeResponse(h, r)
  \/ \E h \in H : \E i \in 1..2 : \E r \in ConcBranchResponses :
       BranchResponse(h, i, r)
  \/ \E h \in H : \E r \in ConcGeminiResponses : GenerateResponse(h, r)
  \/ \E h \in H : SayResponse(h, TRUE)

SpecRetry == Init /\ [][NextRetry]_vars

(***************************************************************************)
(* The properties of the specification, stated over the model.             *)
(***************************************************************************)
\* The handler of invocation h ran (the event was delivered).
Delivered(h) == pc[h] # "idle"

\* The text of the message with mention/channel tokens removed, trimmed.
CleanedLen(h) == Len(trim(removeTokens(message[h].text)))

\* A message at top level that no bot or system event produced.
TopLevelUser(h) ==
  /\ ~message[h].thread_ts
  /\ ~message[h].bot_id
  /\ message[h].subtype = None

\* The fan-out requests invocation h issued.
FanOutReqs(h) == SelectSeq(reqs[h], LAMBDA r : r.kind = "translate")

\* The translation replies invocation h posted.
Replies(h) == SelectSeq(posts[h], LAMBDA p : p.kind = "translation")

\* The languages of the sections of a post, in order.
SectionLangs(p) == [k \in 1..Len(p.sections) |-> p.sections[k].lang]

\* Whether code is in the sequence seq, and its first position there.
InSeq(seq, code) == \E k \in 1..Len(seq) : seq[k] = code
PosIn(seq, code) == CHOOSE k \in 1..Len(seq) : seq[k] = code

\* TranslationConfig[S] with S itself removed.
ConfiguredTargets(h) ==
  Without(translationConfig(variant, sourceLang[h]), sourceLang[h])

\* C1: a message whose cleaned text (mention/channel tokens removed, then
\* trimmed) is shorter than the minimum length (5) causes no outbound call:
\* no provider request and no post.
C1_ShortTextNoCall ==
  \A h \in H :
    (Delivered(h) /\ CleanedLen(h) < MIN_MESSAGE_LENGTH)
      => (reqs[h] = <<>> /\ posts[h] = <<>>)

\* C2: for a top-level message of a user, a cleaned text of exactly 5
\* characters is dispatched (the probe/detection call is issued) and a cleaned
\* text of exactly 4 characters causes no call and no reply.
C2_ThresholdInclusive ==
  \A h \in H :
    (Delivered(h) /\ TopLevelUser(h))
      => /\ CleanedLen(h) = MIN_MESSAGE_LENGTH => reqs[h] # <<>>
         /\ CleanedLen(h) = MIN_MESSAGE_LENGTH - 1
              => (reqs[h] = <<>> /\ posts[h] = <<>>)

\* C3: when the detected source language is not a key of TranslationConfig,
\* the handler issues no fan-out request and posts nothing.
C3_UnconfiguredSourceSilent ==
  \A h \in H :
    (sourceLang[h] # None /\ translationConfig(variant, sourceLang[h]) = <<>>)
      => (FanOutReqs(h) = <<>> /\ posts[h] = <<>>)

\* C4: no section of a translation reply is in the normalized detected
\* source language of its message.
C4_NoSectionInSourceLang ==
  \A h \in H : \A n \in 1..Len(Replies(h)) :
    ~InSeq(SectionLangs(Replies(h)[n]), sourceLang[h])

\* C5: for a configured source language S the translation reply has exactly
\* one section per language of TranslationConfig[S] (S removed): none is
\* missing, none is repeated and no other language has a section.
C5_OneSectionPerTarget ==
  \A h \in H : \A n \in 1..Len(Replies(h)) :
    translationConfig(variant, sourceLang[h]) # <<>>
      => LET langs == SectionLangs(Replies(h)[n])
             targets == ConfiguredTargets(h)
         IN /\ Len(langs) = Len(targets)
            /\ \A k \in 1..Len(targets) : InSeq(langs, targets[k])

\* The fan-out of invocation h is over and exactly one branch failed.
OneBranchFailed(h) ==
  /\ branch[h] # <<>>
  /\ \A i \in 1..Len(branch[h]) : branch[h][i].st # "inflight"
  /\ Cardinality({i \in 1..Len(branch[h]) : branch[h][i].st # "ok"}) = 1

\* C6: when exactly one of the N fan-out translations of a message fails and
\* the others succeed, a translation reply is posted with a section for each
\* of the N languages: the failed one shows an error, the others their
\* translation.
C6_PartialFailureIsolated ==
  \A h \in H :
    OneBranchFailed(h)
      => /\ Replies(h) # <<>>
         /\ \A n \in 1..Len(Replies(h)) : \A i \in 1..Len(branch[h]) :
              Cardinality({k \in 1..Len(Replies(h)[n].sections) :
                 /\ Replies(h)[n].sections[k].lang = branch[h][i].lang
                 /\ Replies(h)[n].sections[k].ok = (branch[h][i].st = "ok")})
                = 1

\* C7: the sections of a reply are in the order in which TranslationConfig
\* lists the targets of the detected source language, whatever the order in
\* which the fan-out requests complete.
C7_SectionsInConfigOrder ==
  \A h \in H : \A n \in 1..Len(Replies(h)) :
    LET langs == SectionLangs(Replies(h)[n])
        config == translationConfig(variant, sourceLang[h])
    IN \A j, k \in 1..Len(langs) :
         (j < k /\ InSeq(config, langs[j]) /\ InSeq(config, langs[k]))
           => PosIn(config, langs[j]) < PosIn(config, langs[k])

\* C8: no post (translation reply or error notice) of a message is made
\* while one of its fan-out requests is in flight.
C8_NoPostBeforeFanIn ==
  \A h \in H :
    (\E i \in 1..Len(branch[h]) : branch[h][i].st = "inflight")
      => posts[h] = <<>>

\* Invocation h is over: the handler returned or rejected.
Finished(h) == pc[h] \in {"done", "escaped"}

\* g and h handled events with the same message identifier that pass the
\* filter, h arriving after g and within the dedup window of g.
SameIdWithinWindow(g, h) ==
  /\ g < h
  /\ Delivered(g) /\ Delivered(h)
  /\ message[g].ts = message[h].ts
  /\ passesGuards(variant, message[g]) /\ passesLength(variant, message[g])
  /\ passesGuards(variant, message[h]) /\ passesLength(variant, message[h])
  /\ arrivedAt[h] - arrivedAt[g] < DEDUP_MS

\* The provider call of invocation h returned a result the handler renders.
UsableResult(h) == sourceLang[h] # None

\* C9 (as stated): two events with the same message identifier within the
\* dedup window produce exactly one reply in total, whatever the outcome of
\* the provider call of the first.
C9_ExactlyOneReply ==
  \A g, h \in H :
    (SameIdWithinWindow(g, h) /\ Finished(g) /\ Finished(h))
      => Len(posts[g]) + Len(posts[h]) = 1

\* C9 (amended): two events with the same message identifier within the
\* dedup window produce at most one reply in total, and exactly one once
\* both handlers are over and the provider call made for the message
\* returned a usable result.
C9_AtMostOneReply ==
  \A g, h \in H :
    SameIdWithinWindow(g, h)
      => /\ Len(posts[g]) + Len(posts[h]) <= 1
         /\ (Finished(g) /\ Finished(h)
               /\ (UsableResult(g) \/ UsableResult(h)))
              => Len(posts[g]) + Len(posts[h]) = 1

\* Both events of a redelivered message were handled, the first replied
\* and the second was dropped at the dedup gate.
C9_Witness ==
  \E g, h \in H :
    /\ SameIdWithinWindow(g, h)
    /\ Finished(g) /\ Finished(h)
    /\ Len(posts[g]) = 1 /\ posts[g][1].status = "ok"
    /\ reqs[h] = <<>> /\ posts[h] = <<>>

\* The step in which invocation h starts its fan-out.
FanOutStarts(h) == pc[h] = "probe" /\ pc'[h] \in {"fanout", "say"}

\* C10: when the cache holds a translation v of (t, l), a request for (t, l)
\* made while now - insertedAt < 15 min returns v and issues no provider
\* call; one made when now - insertedAt >= 15 min issues a provider call.
C10_CacheRoundTrip ==
  [][\A h \in H :
       FanOutStarts(h)
         => \A i \in 1..Len(branch'[h]) :
              LET l == branch'[h][i].lang
                  t == cleanTextOf(variant, message[h])
                  k == cacheKey(t, l)
                  asked == InSeq(reqs'[h], Request("translate", t, l))
              IN k \in DOMAIN translationCache
                   => IF now - translationCache[k].timestamp < TTL_CACHE_MS
                      THEN /\ branch'[h][i].st = "ok"
                           /\ branch'[h][i].body = translationCache[k].translation
                           /\ ~asked
                      ELSE /\ branch'[h][i].st = "inflight"
                           /\ asked]_vars

\* A branch was served from an entry stored earlier than now, and the
\* invocation issued no request for that language.
C10_Witness ==
  \E h \in H : \E i \in 1..Len(branch[h]) :
    LET t == cleanTextOf(variant, message[h])
        k == cacheKey(t, branch[h][i].lang)
    IN /\ branch[h][i].hit
       /\ k \in DOMAIN translationCache
       /\ translationCache[k].timestamp < now
       /\ branch[h][i].body = translationCache[k].translation
       /\ ~InSeq(reqs[h], Request("translate", t, branch[h][i].lang))

\* C11: after every completed put the translation cache holds at most the
\* capacity of the specification (MaxCacheEntries here, 1000 there): a put
\* that exceeds it clears the cache.
C11_CacheWithinCapacity ==
  Cardinality(DOMAIN translationCache) <= MaxCacheEntries

\* The language code the provider reported to invocation h.
ReportedCode(h) ==
  IF variant \in DeeplVariants THEN received[h].detected
  ELSE received[h].shape.sourceLang

\* normalize(code) of the specification: upper case, and every code with
\* the Portuguese prefix becomes PT-BR.
Canonical(code) ==
  IF startsWithPT(toUpperCase(code)) THEN "PT-BR" ELSE toUpperCase(code)

\* C12: the language code the handler works with is the reported code in
\* upper case, with every code that begins with the Portuguese prefix mapped
\* to PT-BR; the same holds of the language of every rendered translation
\* the provider labelled.
C12_CodesNormalized ==
  \A h \in H :
    sourceLang[h] # None
      => /\ sourceLang[h] = Canonical(ReportedCode(h))
         /\ variant \in GeminiVariants
              => \A n \in 1..Len(Replies(h)) :
                   \A k \in 1..Len(Replies(h)[n].sections) :
                     Replies(h)[n].sections[k].lang
                       = Canonical(Replies(h)[n].sections[k].body.to)

\* The detection (probe) call of invocation h failed.
ProbeFailed(h) ==
  /\ variant \in DeeplVariants
  /\ received[h] # Nil
  /\ ~received[h].ok

\* The posts of invocation h that did not fail (sent or being sent).
PostsMade(h) == {k \in 1..Len(posts[h]) : posts[h][k].status # "fail"}

\* C13: when the probe call fails the message is abandoned: no fan-out
\* request is issued, no translation reply is posted, and at most one
\* warning or notice is posted.
C13_ProbeFailureAborts ==
  \A h \in H :
    ProbeFailed(h)
      => /\ FanOutReqs(h) = <<>>
         /\ branch[h] = <<>>
         /\ Replies(h) = <<>>
         /\ Cardinality(PostsMade(h)) <= 1

\* The probe call failed, the warning was posted and the handler returned.
C13_Witness ==
  \E h \in H :
    /\ ProbeFailed(h)
    /\ pc[h] = "done"
    /\ Len(posts[h]) = 1
    /\ posts[h][1].kind = "warning"
    /\ posts[h][1].status = "ok"

\* The filter of the handler let the message of invocation h through.
Accepted(h) ==
  /\ Delivered(h)
  /\ passesGuards(variant, message[h])
  /\ passesLength(variant, message[h])

\* The one call a handler starts with: the probe with its fixed target, or
\* the single generative call.
FirstCall(h) ==
  IF variant \in DeeplVariants
  THEN Request("probe", cleanTextOf(variant, message[h]), "EN")
  ELSE Request("generate", cleanTextOf(variant, message[h]), None)

C15_ProbeResultReused ==
  \A h \in H :
    (/\ variant \in DeeplVariants
     /\ sourceLang[h] # None
     /\ InSeq(ConfiguredTargets(h), probeTarget(variant)))
      => /\ \A k \in 1..Len(reqs[h]) :
              ~(reqs[h][k].kind = "translate"
                  /\ reqs[h][k].target = probeTarget(variant))
         /\ \A n \in 1..Len(Replies(h)) :
              \E k \in 1..Len(Replies(h)[n].sections) :
                /\ Replies(h)[n].sections[k].lang = probeTarget(variant)
                /\ Replies(h)[n].sections[k].body = probeText[h]

\* The generative call of invocation h was answered with a finish reason
\* other than STOP.
FinishedNotStop(h) ==
  /\ variant \in GeminiVariants
  /\ received[h] # Nil
  /\ received[h].http
  /\ received[h].finishReason \notin {None, "STOP"}

\* C16: when the provider's answer carries a finish reason other than STOP
\* the translate operation yields null without throwing and the handler
\* posts no reply.
C16_NonStopIsSoftFailure ==
  \A h \in H :
    FinishedNotStop(h)
      => /\ translate(variant, received[h]) = Nil
         /\ posts[h] = <<>>
         /\ pc[h] = "done"

\* The generative call of invocation h completed (finish reason STOP) with
\* an output that is not valid: no text or text that does not parse once
\* code fences are removed, no detected source language, or translations
\* missing or empty.
InvalidOutput(h) ==
  /\ variant \in GeminiVariants
  /\ received[h] # Nil
  /\ received[h].http
  /\ received[h].finishReason = "STOP"
  /\ \/ received[h].raw \in {"garbage", "empty"}
     \/ received[h].shape.sourceLang = None
     \/ ~received[h].shape.hasTranslations
     \/ received[h].shape.langs = <<>>

\* C17: when the provider's structured output is not valid the handler
\* posts no reply and returns without an exception escaping it.
C17_InvalidOutputNoReply ==
  \A h \in H :
    InvalidOutput(h) => (posts[h] = <<>> /\ pc[h] = "done")

\* C18: whatever provider calls and say() calls fail, no exception escapes
\* the message handler.
C18_NoExceptionEscapes ==
  \A h \in H : pc[h] # "escaped"

\* C19: a message of a bot (bot_id set, or the bot subtype) causes no
\* provider call and no post.
C19_BotMessagesIgnored ==
  \A h \in H :
    (Delivered(h)
       /\ (message[h].bot_id \/ message[h].subtype = "bot_message"))
      => (reqs[h] = <<>> /\ posts[h] = <<>>)

\* The positions in the requests of invocation h of the calls of a kind and
\* target.
CallsOf(h, kinds, target) ==
  {k \in 1..Len(reqs[h]) :
     reqs[h][k].kind \in kinds /\ reqs[h][k].target = target}

\* C20: a handler issues at most one probe (or generative) request and at
\* most one translation request per target language, whatever fails: at
\* most 1 + |targets| requests per message.
C20_NoRetry ==
  \A h \in H :
    /\ Cardinality({k \in 1..Len(reqs[h]) :
                      reqs[h][k].kind \in {"probe", "generate"}}) <= 1
    /\ \A l \in LangCodes : Cardinality(CallsOf(h, {"translate"}, l)) <= 1
    /\ Len(reqs[h])
         <= 1 + (IF sourceLang[h] = None THEN 0
                 ELSE Len(translationConfig(variant, sourceLang[h])))

\* A fan-out request failed, the handler is over and it issued the probe
\* and one request per target only.
C20_Witness ==
  \E h \in H :
    /\ Finished(h)
    /\ Len(reqs[h]) = 3
    /\ \E i \in 1..Len(branch[h]) : branch[h][i].st \in {"fail", "rejected"}

(***************************************************************************)
(* Claims C21 to C30.                                                      *)
(***************************************************************************)

\* C21: every post made while handling an inbound message (translation
\* reply, warning, unsupported-language notice, failure notice) is a
\* threaded reply whose thread root is the timestamp of that same message.
C21_PostsThreadedUnderMessage ==
  \A h \in H :
    \A k \in 1..Len(posts[h]) :
      /\ Delivered(h)
      /\ posts[h][k].thread_ts = message[h].ts

\* Posts of each kind have been made, each under its own message.
C21_Witness ==
  \E h \in H :
    /\ Len(posts[h]) >= 2
    /\ posts[h][1].kind \in {"translation", "warning", "unsupported"}
    /\ posts[h][2].kind = "error"
    /\ posts[h][1].thread_ts = message[h].ts
    /\ message[h].ts > 0

\* C22: every reply that carries rich blocks also carries a non-empty
\* plain-text fallback.
C22_BlocksHaveTextFallback ==
  \A h \in H :
    \A k \in 1..Len(posts[h]) :
      posts[h][k].blocks => posts[h][k].text

\* The largest prefix length any catch-all of the handlers uses:
\* error.message.substring(0, 100).
MaxNoticeChars == 100

\* C23: the notice posted for an unexpected failure contains at most a
\* bounded prefix of the exception's message, never the whole message of
\* arbitrary length.
C23_NoticePrefixBounded ==
  \A h \in H :
    \A k \in 1..Len(posts[h]) :
      posts[h][k].kind = "error"
        => posts[h][k].detail.shown <= MaxNoticeChars

\* The class the taxonomy gives a provider failure: by HTTP status when
\* the provider answered, NetworkOrUnknown for everything else.
TaxonomyClass(e) ==
  IF ~e.response THEN "NetworkOrUnknown"
  ELSE CASE e.status = 400 -> "InvalidRequest"
         [] e.status \in {401, 403} -> "AuthenticationFailed"
         [] e.status = 429 -> "RateLimited"
         [] e.status = 456 -> "QuotaExceeded"
         [] e.status = 503 -> "ServiceUnavailable"
         [] OTHER -> "NetworkOrUnknown"

\* C24: every provider failure is classified as exactly one of
\* InvalidRequest (400), AuthenticationFailed (401 and 403), RateLimited
\* (429), QuotaExceeded (456), ServiceUnavailable (503) or NetworkOrUnknown,
\* and the warning posted for it carries that class's message.
C24_ErrorClassification ==
  \A h \in H :
    \A k \in 1..Len(posts[h]) :
      posts[h][k].kind = "warning"
        => /\ ProbeFailed(h)
           /\ posts[h][k].detail.class = TaxonomyClass(received[h].error)

\* C26: when the provider's API key is absent at startup the program never
\* reaches the running state in which it accepts messages, and the absence
\* never shows as a failed provider call of a handler.
C26_FailFastConfiguration ==
  ~apiKey
    => /\ ~started
       /\ \A h \in H : received[h] = Nil

\* The requests translateText issued for (text, lang), over all
\* invocations.
TranslateCalls(text, lang) ==
  {c \in H \X (1..(2 * Cardinality(LangCodes))) :
     /\ c[2] <= Len(reqs[c[1]])
     /\ reqs[c[1]][c[2]] = Request("translate", text, lang)}

\* C27: within any TTL window at most one provider request is issued for
\* a (text, target language) pair, also when messages with the same text
\* are handled concurrently.  (Before the clock has advanced by the TTL,
\* every request so far lies in one window.)
C27_OneRequestPerWindow ==
  now < TTL_CACHE_MS
    => \A h \in H : \A lang \in LangCodes :
         Delivered(h)
           => Cardinality(TranslateCalls(cleanTextOf(variant, message[h]),
                                         lang)) <= 1

\* Every entry is what a successful response to a request of some
\* invocation returned for the text and language of the entry's key.
EntriesFromResponses ==
  \A k \in DOMAIN translationCache :
    \E h \in H : \E i \in 1..Len(branch[h]) :
      /\ branch[h][i].st = "ok"
      /\ ~branch[h][i].hit
      /\ k = cacheKey(cleanTextOf(variant, message[h]), branch[h][i].lang)
      /\ translationCache[k].translation = branch[h][i].body
      /\ translationCache[k].translation
           = Tr(cleanTextOf(variant, message[h]), branch[h][i].lang)

\* A step in which a request fails leaves the cache as it is.
FailureKeepsCache ==
  \A h \in H : \A i \in 1..Len(branch[h]) :
    (/\ branch[h][i].st = "inflight"
     /\ i <= Len(branch'[h])
     /\ branch'[h][i].st \in {"fail", "rejected"})
      => translationCache' = translationCache

\* C28: every cache entry stored under the key of (text, lang) holds a
\* translation that a successful provider response returned for exactly
\* that text and language; a failed request never creates or overwrites an
\* entry, however the handlers interleave.
C28_CacheIntegrity == []EntriesFromResponses /\ [][FailureKeepsCache]_vars

\* Two handlers are past their probe calls; a request of one has failed
\* while the cache holds an entry, and none under the failed request's key.
C28_Witness ==
  \E g \in H : \E h \in H \ {g} : \E i \in 1..Len(branch[h]) :
    /\ branch[g] # <<>>
    /\ branch[h][i].st = "fail"
    /\ translationCache # EmptyMap
    /\ cacheKey(cleanTextOf(variant, message[h]), branch[h][i].lang)
         \notin DOMAIN translationCache

\* The step settles a request of some invocation with a response whose
\* translation belongs under key k.
StoresUnder(k) ==
  \E h \in H : \E i \in 1..Len(branch[h]) :
    /\ branch[h][i].st = "inflight"
    /\ branch'[h][i].st = "ok"
    /\ k = cacheKey(cleanTextOf(variant, message[h]), branch[h][i].lang)

\* The step runs the lookups of invocation h's fan-out.
LooksUp(h) == branch[h] = <<>> /\ branch'[h] # <<>>

\* C29: a lookup, hit or not, leaves the cache unchanged: it neither
\* refreshes an entry's timestamp nor removes or adds an entry; an entry is
\* never deleted, and it changes only when a successful translation of the
\* same key is stored.
C29_Step ==
  /\ \A h \in H : LooksUp(h) => translationCache' = translationCache
  /\ DOMAIN translationCache \subseteq DOMAIN translationCache'
  /\ \A k \in DOMAIN translationCache' :
       (k \notin DOMAIN translationCache
          \/ translationCache'[k] # translationCache[k])
         => StoresUnder(k)

C29_HitLeavesCacheUnchanged == [][C29_Step]_vars

\* A lookup was served from an entry stored at an earlier instant, and the
\* entry still has the timestamp of its insertion.
C29_Witness ==
  \E h \in H : \E i \in 1..Len(branch[h]) :
    LET k == cacheKey(cleanTextOf(variant, message[h]), branch[h][i].lang)
    IN /\ branch[h][i].hit
       /\ k \in DOMAIN translationCache
       /\ translationCache[k].timestamp < now
       /\ pc[h] = "done"

\* The (text, target language) pairs translateText was called with.
LookedUp ==
  UNION {{<<cleanTextOf(variant, message[h]), branch[h][i].lang>> :
            i \in 1..Len(branch[h])} : h \in H}

\* The targets of the configuration of the cached handlers.
CachedTargets == {"EN", "ES", "PT-BR"}

\* C30: the cache key is injective over the texts and the configured
\* target languages: distinct (text, language) pairs have distinct keys, an
\* entry belongs to one pair only, and a translation served from the cache
\* is the one of the asking text and language.
C30_CacheKeyInjective ==
  /\ \A p \in LookedUp : \A q \in KeyTexts \X CachedTargets :
       cacheKey(p[1], p[2]) = cacheKey(q[1], q[2]) => p = q
  /\ \A h \in H : \A i \in 1..Len(branch[h]) :
       /\ branch[h][i].lang \in CachedTargets
       /\ branch[h][i].st = "ok"
            => branch[h][i].body
                 = Tr(cleanTextOf(variant, message[h]), branch[h][i].lang)

\* Two messages whose texts share their first characters have been
\* translated into a common language: each pair has its own entry, and the
\* later handler was served none of the earlier one's.
C30_Witness ==
  \E g \in H : \E h \in H :
    /\ pc[g] = "done" /\ pc[h] = "done"
    /\ cleanTextOf(variant, message[g]) = Text5
    /\ cleanTextOf(variant, message[h]) = TextDashPT
    /\ \E i \in 1..Len(branch[g]) : branch[g][i].lang = "PT-BR"
    /\ \E j \in 1..Len(branch[h]) :
         branch[h][j].lang = "PT-BR" /\ ~branch[h][j].hit
    /\ Cardinality(DOMAIN translationCache) >= 3

(***************************************************************************)
(* Claims C31 to C37.                                                      *)
(***************************************************************************)

\* Invocation h passed the dedup gate: it issued its provider call.
PassedGate(h) == reqs[h] # <<>>

\* C31: of two events with the same message identifier that arrive within
\* the dedup window, at most one passes the gate, however their handlers
\* interleave, and at most one outbound reply is posted for the identifier.
C31_GateAdmitsOne ==
  \A g, h \in H :
    SameIdWithinWindow(g, h)
      => /\ ~(PassedGate(g) /\ PassedGate(h))
         /\ Len(Replies(g)) + Len(Replies(h)) <= 1

\* The second event arrived while the provider call of the first was still
\* in flight, and was dropped at the gate.
C31_Witness ==
  \E g, h \in H :
    /\ SameIdWithinWindow(g, h)
    /\ pc[g] = "generate"
    /\ pc[h] = "done"
    /\ ~PassedGate(h)
    /\ message[h].ts \in processedIds

\* Every identifier in the dedup set has exactly one pending eviction
\* timer, due 60 s after the arrival of the event that was accepted with
\* it; there is no other timer.
OneTimerPerId ==
  /\ \A id \in processedIds : Cardinality({t \in timers : t.id = id}) = 1
  /\ \A t \in timers :
       /\ t.id \in processedIds
       /\ \E h \in H :
            /\ PassedGate(h)
            /\ message[h].ts = t.id
            /\ t.due = arrivedAt[h] + DEDUP_MS

\* A step that delivers an event whose identifier is in the set drops it
\* and leaves the set and the timers as they are; one whose identifier is
\* not in the set processes it; an identifier leaves the set only when its
\* timer is due.
EvictionStep ==
  /\ \A h \in H :
       (pc[h] = "idle" /\ pc'[h] # "idle")
         => IF message'[h].ts \in processedIds
            THEN /\ pc'[h] = "done"
                 /\ reqs'[h] = <<>>
                 /\ UNCHANGED <<processedIds, timers>>
            ELSE /\ pc'[h] = "generate"
                 /\ message'[h].ts \in processedIds'
  /\ \A id \in processedIds \ processedIds' :
       \E t \in timers : t.id = id /\ t.due <= now /\ t \notin timers'

RejectsMessage(h) ==
  /\ pc[h] = "idle"
  /\ pc'[h] # "idle"
  /\ ~(passesGuards(variant, message'[h]) /\ passesLength(variant, message'[h]))

\* C33: a message rejected by the filter changes no shared state: the
\* translation cache and the dedup set are the same after the handler
\* returns as before it was invoked.
C33_RejectedChangesNothing ==
  [][\A h \in H :
       RejectsMessage(h)
         => /\ pc'[h] = "done"
            /\ translationCache' = translationCache
            /\ processedIds' = processedIds]_vars

\* C34: every post of the bot names a thread parent, so when a post comes
\* back as an inbound message event the thread filter rejects it: the
\* event causes no provider call and no further post.
C34_NoFeedbackLoop ==
  /\ \A h \in H : \A k \in 1..Len(posts[h]) : posts[h][k].thread_ts # 0
  /\ \A h \in H \ {1} :
       Delivered(h)
         => /\ message[h].thread_ts
            /\ pc[h] = "done"
            /\ reqs[h] = <<>>
            /\ posts[h] = <<>>

\* A translation reply of the bot came back as a message event with a
\* text long enough to translate, and was dropped.
C34_Witness ==
  \E h \in H \ {1} : \E k \in 1..Len(posts[1]) :
    /\ posts[1][k].kind = "translation"
    /\ posts[1][k].status = "ok"
    /\ Delivered(h)
    /\ message[h] \in echoesOf(posts[1][k], h)
    /\ message[h].text = Text6
    /\ pc[h] = "done"

\* C35: every request that carries the x-slack-retry-num header is
\* answered by the middleware and never reaches the message handler: it
\* causes no provider call, no change of the dedup set and no reply.
\* (Every request after the first carries the header.)
C35_RetriesNeverHandled ==
  \A h \in H \ {1} :
    pc[h] # "idle"
      => /\ reqs[h] = <<>>
         /\ posts[h] = <<>>
         /\ \A t \in timers : t.id = message[1].ts /\ t.due = DEDUP_MS

\* The posts of invocation h that say() delivered.
Delivered_ok(h) == {k \in 1..Len(posts[h]) : posts[h][k].status = "ok"}

\* C36: an invocation of the handler makes at most one successful post:
\* every post before its last one failed, so the translation reply, the
\* warning and the error notice exclude each other; and a translation reply
\* is posted once, when no branch of the fan-out is still in flight.
C36_AtMostOnePost ==
  \A h \in H :
    /\ Cardinality(Delivered_ok(h)) <= 1
    /\ \A k \in 1..(Len(posts[h]) - 1) : posts[h][k].status = "fail"
    /\ Len(Replies(h)) <= 1
    /\ Replies(h) # <<>>
         => \A i \in 1..Len(branch[h]) : branch[h][i].st # "inflight"

\* The reply of a fan-out of two branches failed to post and the error
\* notice that followed it was delivered: two say() calls, one success.
C36_Witness ==
  \E h \in H :
    /\ pc[h] = "done"
    /\ Len(branch[h]) = 2
    /\ Len(posts[h]) = 2
    /\ posts[h][1].kind = "translation"
    /\ posts[h][1].status = "fail"
    /\ posts[h][2].kind = "error"
    /\ posts[h][2].status = "ok"

\* C37: if every provider request and every say() returns or fails, every
\* invocation of the handler comes to an end: it returns (skipped, aborted
\* or replied) or rejects, and does not wait forever for a fan-out branch.
C37_Termination ==
  \A h \in H : (pc[h] # "idle") ~> (pc[h] \in {"done", "escaped"})

\* An invocation ended while the request of one of its fan-out branches was
\* still in flight, after another branch was rejected.
C37_Witness ==
  \E h \in H :
    /\ pc[h] \in {"done", "escaped"}
    /\ \E i \in 1..Len(branch[h]) : branch[h][i].st = "rejected"
    /\ \E i \in 1..Len(branch[h]) : branch[h][i].st = "inflight"

====
